---- MODULE Spec2Model ----
(***************************************************************************)
(* Yo-Yo Intermittent Recovery Test Level 1: the state resolver, the cue   *)
(* generator, the shuttle-time lookup and the VO2max formula of            *)
(* lib/yoyo-test.ts, finalizeParticipants of lib/database.ts, the          *)
(* AudioManager of lib/audio.ts and the timer and cue playback of          *)
(* pages/ConductorPage.tsx.                                                *)
(*                                                                         *)
(* Every time value of the program is a JavaScript number, an IEEE-754     *)
(* binary64.  A non-negative number is modelled exactly, as a natural      *)
(* number of units of 2^-64 s held in NumLimbs limbs of LimbBits bits      *)
(* (least significant limb first), and every arithmetic operation rounds   *)
(* its exact result to MantissaBits significant bits, ties to even, as     *)
(* the hardware does.  With FracLimbs = 4 the top limb is the integer      *)
(* part of the value.                                                      *)
(***************************************************************************)
EXTENDS Integers, Sequences, FiniteSets, TLC

----------------------------------------------------------------------------
(* Natural numbers wider than the checker's integers. *)

LimbBits == 16
LimbBase == 2 ^ LimbBits
FracLimbs == 4
NumLimbs == FracLimbs + 1
MantissaBits == 53

Limbs == 1..NumLimbs

BZero == [i \in Limbs |-> 0]

(* The integer n (0 <= n < LimbBase) as a number of 2^-64 units. *)
FromInt(n) == [i \in Limbs |-> IF i = NumLimbs THEN n ELSE 0]

RECURSIVE NormFrom(_, _, _)
NormFrom(w, i, carry) ==
  IF i > NumLimbs THEN << >>
  ELSE << (w[i] + carry) % LimbBase >> \o NormFrom(w, i + 1, (w[i] + carry) \div LimbBase)

(* Carry propagation over limbs that each hold a small multiple of a limb. *)
Norm(w, carry) == NormFrom(w, 1, carry)

BAdd(a, b) == Norm([i \in Limbs |-> a[i] + b[i]], 0)

(* a - b for a >= b, by adding the complement of b; the final carry is dropped. *)
BSub(a, b) == Norm([i \in Limbs |-> a[i] + (LimbBase - 1 - b[i])], 1)

BMulInt(a, n) == Norm([i \in Limbs |-> a[i] * n], 0)

RECURSIVE BCmpFrom(_, _, _)
BCmpFrom(a, b, i) ==
  IF i = 0 THEN 0
  ELSE IF a[i] < b[i] THEN -1
  ELSE IF a[i] > b[i] THEN 1
  ELSE BCmpFrom(a, b, i - 1)

(* -1, 0 or 1 as a < b, a = b or a > b. *)
BCmp(a, b) == BCmpFrom(a, b, NumLimbs)

BLe(a, b) == BCmp(a, b) <= 0
BLt(a, b) == BCmp(a, b) < 0

RECURSIVE IntBitLen(_)
IntBitLen(n) == IF n = 0 THEN 0 ELSE 1 + IntBitLen(n \div 2)

RECURSIVE TopLimb(_, _)
TopLimb(a, i) == IF i = 0 THEN 0 ELSE IF a[i] # 0 THEN i ELSE TopLimb(a, i - 1)

(* Number of significant bits of a, whose highest non-zero limb is t. *)
BitLenFrom(a, t) == IF t = 0 THEN 0 ELSE (t - 1) * LimbBits + IntBitLen(a[t])

(* Number of significant bits of a. *)
BitLen(a) == BitLenFrom(a, TopLimb(a, NumLimbs))

(* a mod 2^k *)
LowBits(a, k) ==
  [i \in Limbs |->
     IF i * LimbBits <= k THEN a[i]
     ELSE IF (i - 1) * LimbBits >= k THEN 0
     ELSE a[i] % (2 ^ (k - (i - 1) * LimbBits))]

(* 2^k as a big number, 0 <= k < NumLimbs * LimbBits *)
Pow2(k) ==
  [i \in Limbs |-> IF i = (k \div LimbBits) + 1 THEN 2 ^ (k % LimbBits) ELSE 0]

(* bit k of a (bit 0 is the least significant) *)
BitAt(a, k) == (a[(k \div LimbBits) + 1] \div (2 ^ (k % LimbBits))) % 2

(* Limb i of a, 0 above the top limb. *)
LimbAt(a, i) == IF i <= NumLimbs THEN a[i] ELSE 0

(* floor(a / 2^(q * LimbBits + r)) for 0 <= r < LimbBits *)
ShiftLimbs(a, q, r) ==
  [i \in Limbs |->
     (LimbAt(a, i + q) \div (2 ^ r)) + (LimbAt(a, i + q + 1) % (2 ^ r)) * (2 ^ (LimbBits - r))]

(* floor(a / 2^k) *)
ShiftRight(a, k) == ShiftLimbs(a, k \div LimbBits, k % LimbBits)

----------------------------------------------------------------------------
(* IEEE-754 binary64 arithmetic on non-negative values. *)

(* a without its k low bits is base; c compares the low bits with half a   *)
(* unit of bit k: round up above the half, and at the half when bit k is   *)
(* odd.                                                                    *)
RoundTie(a, k, base, c) ==
  IF c > 0 \/ (c = 0 /\ BitAt(a, k) = 1) THEN BAdd(base, Pow2(k)) ELSE base

(* Round a, whose k low bits are low, to a multiple of 2^k. *)
RoundLow(a, k, low) == RoundTie(a, k, BSub(a, low), BCmp(low, Pow2(k - 1)))

(* Round a to a multiple of 2^k, ties to even. *)
RoundAt(a, k) == IF k <= 0 THEN a ELSE RoundLow(a, k, LowBits(a, k))

(* Round an exact value to MantissaBits significant bits, ties to even. *)
Round53(a) == RoundAt(a, BitLen(a) - MantissaBits)

(* x + y *)
FAdd(x, y) == Round53(BAdd(x, y))

(* x - y, for x >= y *)
FSub(x, y) == Round53(BSub(x, y))

(* n * x for an integer 0 <= n < 2^15 *)
FMulInt(n, x) == Round53(BMulInt(x, n))

RECURSIVE ExactQuotient(_, _, _)
ExactQuotient(a, b, n) ==
  IF BLt(a, BMulInt(b, n + 1)) THEN n ELSE ExactQuotient(a, b, n + 1)

RECURSIVE CeilLog2(_)
CeilLog2(n) == IF n <= 1 THEN 0 ELSE IntBitLen(n - 1)

(* Math.floor(x / y) for y > 0 and a quotient below 2^15.  With n the      *)
(* floor of the exact quotient, the rounded quotient x / y lies in         *)
(* [n, n+1], and it is n+1 exactly when the exact quotient is at least     *)
(* the midpoint of n+1 and the double just below it (the tie goes to n+1,  *)
(* whose mantissa is even): (n+1) - x/y <= 2^-j with                       *)
(* j = MantissaBits + 1 - ceil(log2(n+1)), that is (n+1)*y - x <= y/2^j.   *)
FloorFrom(x, y, n) ==
  IF BLe(BSub(BMulInt(y, n + 1), x), ShiftRight(y, MantissaBits + 1 - CeilLog2(n + 1)))
  THEN n + 1
  ELSE n

FloorDiv(x, y) == FloorFrom(x, y, ExactQuotient(x, y, 0))

RECURSIVE FracLimbsOf(_, _)
FracLimbsOf(rem, k) ==
  IF k = 0 THEN << >>
  ELSE FracLimbsOf((rem * LimbBase) % 100, k - 1) \o << (rem * LimbBase) \div 100 >>

RECURSIVE FracRem(_, _)
FracRem(rem, k) == IF k = 0 THEN rem ELSE FracRem((rem * LimbBase) % 100, k - 1)

(* The double denoted by a decimal literal with two fraction digits:       *)
(* Dec(720) is the number 7.2.  The exact quotient c/100 is developed to   *)
(* 64 fraction bits, a non-zero remainder is kept as a sticky last bit,    *)
(* and the result is rounded to the nearest double.                        *)
DecFrom(c, q) ==
  Round53([q EXCEPT
             ![1] = @ + (IF FracRem(c % 100, FracLimbs) # 0 /\ q[1] % 2 = 0 THEN 1 ELSE 0)])

Dec(c) == DecFrom(c, FracLimbsOf(c % 100, FracLimbs) \o << c \div 100 >>)

RECURSIVE QuotientLimbs(_, _, _)
QuotientLimbs(rem, den, k) ==
  IF k = 0 THEN << >>
  ELSE QuotientLimbs((rem * LimbBase) % den, den, k - 1) \o << (rem * LimbBase) \div den >>

RECURSIVE QuotientRem(_, _, _)
QuotientRem(rem, den, k) ==
  IF k = 0 THEN rem ELSE QuotientRem((rem * LimbBase) % den, den, k - 1)

FractionFrom(q, rem) ==
  Round53([q EXCEPT ![1] = @ + (IF rem # 0 /\ q[1] % 2 = 0 THEN 1 ELSE 0)])

(* The double denoted by a decimal literal below 1 with four fraction      *)
(* digits, n / den for n < den = 10000, developed and rounded as in Dec.   *)
Fraction(n, den) ==
  FractionFrom(QuotientLimbs(n, den, FracLimbs) \o << 0 >>, QuotientRem(n, den, FracLimbs))

(* Math.round without the half added: the value is cut at the point. *)
MathRound_truncated(a) == a[NumLimbs]

(* Math.round(a) for a >= 0: the integer nearest to a, the half going up. *)
MathRound(a) == BAdd(a, [i \in Limbs |-> IF i = FracLimbs THEN LimbBase \div 2 ELSE 0])[NumLimbs]

----------------------------------------------------------------------------
(* A JavaScript number that may be negative: a sign and a magnitude. *)

Pos(mag) == [neg |-> FALSE, mag |-> mag]

Neg(mag) == [neg |-> TRUE, mag |-> mag]

(* The number denoted by a decimal with two fraction digits, c hundredths. *)
Number(c) == IF c < 0 THEN Neg(Dec(0 - c)) ELSE Pos(Dec(c))

(* x <= y *)
NumLe(x, y) ==
  IF x.neg /\ y.neg THEN BLe(y.mag, x.mag)
  ELSE IF x.neg THEN TRUE
  ELSE IF y.neg THEN x.mag = BZero /\ y.mag = BZero
  ELSE BLe(x.mag, y.mag)

(* x > y *)
NumGt(x, y) == ~ NumLe(x, y)

----------------------------------------------------------------------------
(* lib/yoyo-test.ts.  The table holds the literals as they are written,    *)
(* speed and shuttleTime in hundredths; ShuttleTimeOf is the number a      *)
(* literal denotes.                                                        *)

YOYO_LEVELS ==
  << [level |-> 1,  speed |-> 1000, shuttlesPerLevel |-> 8, shuttleTime |-> 720],
     [level |-> 2,  speed |-> 1100, shuttlesPerLevel |-> 8, shuttleTime |-> 655],
     [level |-> 3,  speed |-> 1200, shuttlesPerLevel |-> 8, shuttleTime |-> 600],
     [level |-> 4,  speed |-> 1300, shuttlesPerLevel |-> 8, shuttleTime |-> 554],
     [level |-> 5,  speed |-> 1350, shuttlesPerLevel |-> 8, shuttleTime |-> 533],
     [level |-> 6,  speed |-> 1400, shuttlesPerLevel |-> 8, shuttleTime |-> 514],
     [level |-> 7,  speed |-> 1450, shuttlesPerLevel |-> 8, shuttleTime |-> 497],
     [level |-> 8,  speed |-> 1500, shuttlesPerLevel |-> 8, shuttleTime |-> 480],
     [level |-> 9,  speed |-> 1550, shuttlesPerLevel |-> 8, shuttleTime |-> 465],
     [level |-> 10, speed |-> 1600, shuttlesPerLevel |-> 8, shuttleTime |-> 450],
     [level |-> 11, speed |-> 1650, shuttlesPerLevel |-> 8, shuttleTime |-> 436],
     [level |-> 12, speed |-> 1700, shuttlesPerLevel |-> 8, shuttleTime |-> 424],
     [level |-> 13, speed |-> 1750, shuttlesPerLevel |-> 8, shuttleTime |-> 411],
     [level |-> 14, speed |-> 1800, shuttlesPerLevel |-> 8, shuttleTime |-> 400],
     [level |-> 15, speed |-> 1850, shuttlesPerLevel |-> 8, shuttleTime |-> 389],
     [level |-> 16, speed |-> 1900, shuttlesPerLevel |-> 8, shuttleTime |-> 379],
     [level |-> 17, speed |-> 1950, shuttlesPerLevel |-> 8, shuttleTime |-> 369],
     [level |-> 18, speed |-> 2000, shuttlesPerLevel |-> 8, shuttleTime |-> 360],
     [level |-> 19, speed |-> 2050, shuttlesPerLevel |-> 8, shuttleTime |-> 351],
     [level |-> 20, speed |-> 2100, shuttlesPerLevel |-> 8, shuttleTime |-> 343] >>

NumLevels == Len(YOYO_LEVELS)

ShuttleTimeOf == [i \in 1..NumLevels |-> Dec(YOYO_LEVELS[i].shuttleTime)]

RECOVERY_TIME == 10

SHUTTLE_DISTANCE == 20

(* An offset of the recovery_start cue longer than the recovery: the cue   *)
(* then comes after the recovery_end cue that follows it in the list.      *)
RecoveryStartOffset_late == Dec(1010)

(* The literal 0.1 of the recovery_start cue. *)
RecoveryStartOffset == Dec(10)

(* The value of totalTime at the head of iteration i of the level loop of  *)
(* getTestStateAtTime and of getAudioCues (i = NumLevels + 1: after the    *)
(* loop): both add the level's duration and then the recovery time.        *)
(* levelConfig.shuttlesPerLevel * levelConfig.shuttleTime *)
LevelDuration ==
  [i \in 1..NumLevels |-> FMulInt(YOYO_LEVELS[i].shuttlesPerLevel, ShuttleTimeOf[i])]

(* totalTime after iteration i, entered with totalTime. *)
AfterLevel(totalTime, i) ==
  FAdd(FAdd(totalTime, LevelDuration[i]), FromInt(RECOVERY_TIME))

(* The cursors before with the one after iteration n. *)
WithNext(before, n) == Append(before, AfterLevel(before[n], n))

RECURSIVE TotalTimes(_)
TotalTimes(n) ==
  IF n = 1 THEN << BZero >> ELSE WithNext(TotalTimes(n - 1), n - 1)

TotalTimeBefore == TotalTimes(NumLevels + 1)

(* totalTime after "totalTime += levelDuration" in iteration i. *)
LevelEndTime == [i \in 1..NumLevels |-> FAdd(TotalTimeBefore[i], LevelDuration[i])]

(* totalTime + RECOVERY_TIME after "totalTime += levelDuration" in         *)
(* iteration i.                                                            *)
RecoveryEndTime == [i \in 1..NumLevels |-> FAdd(LevelEndTime[i], FromInt(RECOVERY_TIME))]

(* elapsedSeconds <= totalTime + levelDuration in iteration i. *)
InLevel(elapsedSeconds, i) == BLe(elapsedSeconds, LevelEndTime[i])

(* InRecovery with a window one second longer than the recovery_end cue. *)
InRecovery_longer(elapsedSeconds, i) ==
  BLe(elapsedSeconds, FAdd(RecoveryEndTime[i], FromInt(1)))

(* elapsedSeconds <= totalTime + RECOVERY_TIME in iteration i. *)
InRecovery(elapsedSeconds, i) == BLe(elapsedSeconds, RecoveryEndTime[i])

(* The state returned for elapsedSeconds <= 0. *)
StartState ==
  [level |-> 1, shuttle |-> 0, distance |-> 0, totalTime |-> Pos(BZero),
   isRecoveryPhase |-> FALSE]

(* Math.floor(timeInLevel / shuttleTime) in iteration i. *)
ShuttlesCompleted(elapsedSeconds, i) ==
  FloorDiv(FSub(elapsedSeconds, TotalTimeBefore[i]), ShuttleTimeOf[i])

(* LevelState that reports no elapsed time. *)
LevelState_withoutTotalTime(elapsedSeconds, i, totalDistance, shuttlesCompleted) ==
  [level |-> YOYO_LEVELS[i].level,
   shuttle |-> shuttlesCompleted,
   distance |-> totalDistance + shuttlesCompleted * SHUTTLE_DISTANCE,
   totalTime |-> Pos(BZero),
   isRecoveryPhase |-> FALSE]

(* The state inside level i after shuttlesCompleted shuttles. *)
LevelState(elapsedSeconds, i, totalDistance, shuttlesCompleted) ==
  [level |-> YOYO_LEVELS[i].level,
   shuttle |-> shuttlesCompleted,
   distance |-> totalDistance + shuttlesCompleted * SHUTTLE_DISTANCE,
   totalTime |-> Pos(elapsedSeconds),
   isRecoveryPhase |-> FALSE]

(* InLevelState without the distance of the completed levels: the distance *)
(* then falls at the start of every level after the first.                *)
InLevelState_withoutTotalDistance(elapsedSeconds, i, totalDistance) ==
  LevelState(elapsedSeconds, i, 0, ShuttlesCompleted(elapsedSeconds, i))

(* The state returned inside level i. *)
InLevelState(elapsedSeconds, i, totalDistance) ==
  LevelState(elapsedSeconds, i, totalDistance, ShuttlesCompleted(elapsedSeconds, i))

(* The state returned in the recovery after level i. *)
RecoveryState(elapsedSeconds, i, totalDistance) ==
  [level |-> YOYO_LEVELS[i].level,
   shuttle |-> YOYO_LEVELS[i].shuttlesPerLevel,
   distance |-> totalDistance,
   totalTime |-> Pos(elapsedSeconds),
   isRecoveryPhase |-> TRUE]

(* FinalState with a level of its own after the last level of the table. *)
FinalState_finished(elapsedSeconds, totalDistance) ==
  [level |-> YOYO_LEVELS[NumLevels].level + 1,
   shuttle |-> YOYO_LEVELS[NumLevels].shuttlesPerLevel,
   distance |-> totalDistance,
   totalTime |-> Pos(elapsedSeconds),
   isRecoveryPhase |-> FALSE]

(* The state returned after the loop. *)
FinalState(elapsedSeconds, totalDistance) ==
  [level |-> YOYO_LEVELS[NumLevels].level,
   shuttle |-> YOYO_LEVELS[NumLevels].shuttlesPerLevel,
   distance |-> totalDistance,
   totalTime |-> Pos(elapsedSeconds),
   isRecoveryPhase |-> FALSE]

(* DistanceAfter that leaves the cursor where it was. *)
DistanceAfter_unchanged(i, totalDistance) == totalDistance

(* totalDistance after "totalDistance += ..." in iteration i. *)
DistanceAfter(i, totalDistance) ==
  totalDistance + YOYO_LEVELS[i].shuttlesPerLevel * SHUTTLE_DISTANCE

(* Iteration i of the loop of getTestStateAtTime, entered with the cursor  *)
(* totalDistance, and the iterations after it.                             *)
RECURSIVE StateWalk(_, _, _)
StateWalk(elapsedSeconds, i, totalDistance) ==
  IF i > NumLevels THEN FinalState(elapsedSeconds, totalDistance)
  ELSE IF InLevel(elapsedSeconds, i) THEN InLevelState(elapsedSeconds, i, totalDistance)
  ELSE IF InRecovery(elapsedSeconds, i)
  THEN RecoveryState(elapsedSeconds, i, DistanceAfter(i, totalDistance))
  ELSE StateWalk(elapsedSeconds, i + 1, DistanceAfter(i, totalDistance))

(* getTestStateAtTime without the early return: a negative time then walks *)
(* the table like its absolute value.                                      *)
getTestStateAtTime_withoutEarlyReturn(elapsedSeconds) ==
  StateWalk(elapsedSeconds.mag, 1, 0)

getTestStateAtTime(elapsedSeconds) ==
  IF NumLe(elapsedSeconds, Pos(BZero)) THEN StartState
  ELSE StateWalk(elapsedSeconds.mag, 1, 0)

(* Vo2Max with an intercept of 0.125, whose hundredfold is a half. *)
Vo2Max_eighth(distanceMeters) ==
  FAdd(FMulInt(distanceMeters, Fraction(84, 10000)), Fraction(1250, 10000))

(* distanceMeters * 0.0084 + 36.4 *)
Vo2Max(distanceMeters) ==
  FAdd(FMulInt(distanceMeters, Fraction(84, 10000)), Dec(3640))

(* Math.round(vo2Max * 100) / 100: the quotient of an integer by 100 is    *)
(* the double its decimal denotes.                                         *)
calculateVO2Max(distanceMeters) ==
  Dec(MathRound(FMulInt(100, Vo2Max(distanceMeters))))

(* The totals before with the one after iteration n of getShuttleTime added *)
(* a full level and its recovery: the sum is formed before it is added.    *)
WithLower(before, n) ==
  Append(before,
         FAdd(IF n = 1 THEN BZero ELSE before[n - 1],
              FAdd(LevelDuration[n], FromInt(RECOVERY_TIME))))

RECURSIVE LowerLevelTimes(_)
LowerLevelTimes(n) ==
  IF n = 0 THEN << >> ELSE WithLower(LowerLevelTimes(n - 1), n)

LowerLevelTime == LowerLevelTimes(NumLevels)

(* The loop of getShuttleTime from table entry i on, entered after lower   *)
(* iterations that added a full level.  The table is ascending in level,   *)
(* so these are the iterations 1..lower.                                   *)
RECURSIVE ShuttleWalk(_, _, _, _)
ShuttleWalk(level, shuttle, i, lower) ==
  IF i > NumLevels THEN (IF lower = 0 THEN BZero ELSE LowerLevelTime[lower])
  ELSE IF YOYO_LEVELS[i].level < level THEN ShuttleWalk(level, shuttle, i + 1, lower + 1)
  ELSE IF YOYO_LEVELS[i].level = level
  THEN FAdd(IF lower = 0 THEN BZero ELSE LowerLevelTime[lower],
            FMulInt(shuttle, ShuttleTimeOf[i]))
  ELSE ShuttleWalk(level, shuttle, i + 1, lower)

getShuttleTime(level, shuttle) == ShuttleWalk(level, shuttle, 1, 0)

(* levelStartTime + shuttle * levelConfig.shuttleTime in getAudioCues. *)
TurnTime ==
  [i \in 1..NumLevels |->
     [shuttle \in 1..YOYO_LEVELS[i].shuttlesPerLevel |->
        FAdd(TotalTimeBefore[i], FMulInt(shuttle, ShuttleTimeOf[i]))]]

(* The turn cue of the given shuttle before the cues the loop pushes after *)
(* it.                                                                     *)
PushTurn(i, shuttle, rest) ==
  [returned |-> rest.returned,
   cues |-> << [time |-> TurnTime[i][shuttle], type |-> "turn",
                level |-> YOYO_LEVELS[i].level, shuttle |-> shuttle] >> \o rest.cues]

(* The cues pushed by the inner loop of getAudioCues from shuttle on;       *)
(* returned is true when the loop left the function.                       *)
RECURSIVE TurnCues(_, _, _)
TurnCues(maxDuration, i, shuttle) ==
  IF shuttle > YOYO_LEVELS[i].shuttlesPerLevel
  THEN [returned |-> FALSE, cues |-> << >>]
  ELSE IF NumGt(Pos(TurnTime[i][shuttle]), maxDuration)
  THEN [returned |-> TRUE, cues |-> << >>]
  ELSE PushTurn(i, shuttle, TurnCues(maxDuration, i, shuttle + 1))

(* LevelCompleteCue that leaves out a cue at maxDuration itself. *)
LevelCompleteCue_beforeLimit(maxDuration, i) ==
  IF NumGt(maxDuration, Pos(LevelEndTime[i]))
  THEN << [time |-> LevelEndTime[i], type |-> "level_complete",
           level |-> YOYO_LEVELS[i].level] >>
  ELSE << >>

LevelCompleteCue(maxDuration, i) ==
  IF NumLe(Pos(LevelEndTime[i]), maxDuration)
  THEN << [time |-> LevelEndTime[i], type |-> "level_complete",
           level |-> YOYO_LEVELS[i].level] >>
  ELSE << >>

RecoveryStartCue(maxDuration, i) ==
  IF NumLe(Pos(LevelEndTime[i]), maxDuration)
  THEN << [time |-> FAdd(LevelEndTime[i], RecoveryStartOffset),
           type |-> "recovery_start", level |-> YOYO_LEVELS[i].level] >>
  ELSE << >>

(* RecoveryEndCue that leaves out a cue at maxDuration itself. *)
RecoveryEndCue_beforeLimit(maxDuration, i) ==
  IF NumGt(maxDuration, Pos(TotalTimeBefore[i + 1]))
  THEN << [time |-> TotalTimeBefore[i + 1], type |-> "recovery_end",
           level |-> YOYO_LEVELS[i].level] >>
  ELSE << >>

RecoveryEndCue(maxDuration, i) ==
  IF NumLe(Pos(TotalTimeBefore[i + 1]), maxDuration)
  THEN << [time |-> TotalTimeBefore[i + 1], type |-> "recovery_end",
           level |-> YOYO_LEVELS[i].level] >>
  ELSE << >>

(* The cues pushed by the outer loop of getAudioCues from table entry i on, *)
(* and the rest of iteration i after its turns.                             *)
RECURSIVE CueWalk(_, _)
RECURSIVE AfterTurns(_, _, _)
AfterTurns(maxDuration, i, turns) ==
  IF turns.returned THEN turns.cues
  ELSE turns.cues
       \o LevelCompleteCue(maxDuration, i)
       \o RecoveryStartCue(maxDuration, i)
       \o RecoveryEndCue(maxDuration, i)
       \o (IF NumGt(Pos(TotalTimeBefore[i + 1]), maxDuration) THEN << >>
           ELSE CueWalk(maxDuration, i + 1))

CueWalk(maxDuration, i) ==
  IF i > NumLevels THEN << >>
  ELSE AfterTurns(maxDuration, i, TurnCues(maxDuration, i, 1))

(* getAudioCues that pushes no start cue. *)
getAudioCues_withoutStart(maxDuration) == CueWalk(maxDuration, 1)

getAudioCues(maxDuration) ==
  << [time |-> BZero, type |-> "start"] >> \o CueWalk(maxDuration, 1)

----------------------------------------------------------------------------
(* lib/database.ts: the participants of a session and the test results     *)
(* that finalizeParticipants inserts for them.                             *)

(* null, for an elimination distance *)
NoDistance == 0 - 1

(* The elapsed times, in seconds, at which the conductor eliminates a      *)
(* participant in the model.                                               *)
EliminationTimes == { 0, 5, 8, 60, 1000 }

(* handleEliminateParticipant: getTestStateAtTime(elapsedTime).distance *)
EliminationDistances ==
  { getTestStateAtTime(Pos(FromInt(e))).distance : e \in EliminationTimes }

(* status and elimination_distance of a row of participants *)
ParticipantKinds ==
  [status : { "active", "warned" }, elimination_distance : { NoDistance }]
  \cup [status : { "eliminated" }, elimination_distance : EliminationDistances]

(* The row is selected by .eq('status', 'eliminated') and passes           *)
(* "if (participant.elimination_distance)": null and 0 do not.             *)
IsFinalized(participant) ==
  /\ participant.status = "eliminated"
  /\ participant.elimination_distance # NoDistance
  /\ participant.elimination_distance # 0

(* The row inserted into test_results for a participant. *)
TestResultOf(participant) ==
  [player_id |-> participant.player_id,
   distance_meters |-> participant.elimination_distance,
   vo2_max |-> Dec(MathRound(FMulInt(100, Vo2Max(participant.elimination_distance))))]

(* The rows that finalizeParticipants inserts when no query fails. *)
TestResultsOf(finalized) == [k \in 1..Len(finalized) |-> TestResultOf(finalized[k])]

(* finalizeParticipants when the query number failAt fails: 0 is the       *)
(* select, k the insert for the k-th finalized participant; a number above *)
(* these is no failure.                                                    *)
Finalization(finalized, failAt) ==
  [thrown |-> failAt <= Len(finalized),
   inserted |-> SubSeq(TestResultsOf(finalized), 1,
                       IF failAt = 0 THEN 0
                       ELSE IF failAt <= Len(finalized) THEN failAt - 1
                       ELSE Len(finalized))]

finalizeParticipants(participants, failAt) ==
  Finalization(SelectSeq(participants, IsFinalized), failAt)

----------------------------------------------------------------------------
(* The calls the model makes.  Times are written as decimals with two      *)
(* fraction digits, in hundredths of a second: the schedule as the table   *)
(* states it, computed exactly.                                            *)

MaxOffset == 1
MaxCueLevel == 2
MaxTens == 100
MaxPairGap == 1000
MaxDistance == 4000
MaxLevelOver == 2
MaxShuttleOver == 2
MaxParticipants == 2

RECURSIVE LevelStart(_)
LevelStart(L) ==
  IF L = 1 THEN 0
  ELSE LevelStart(L - 1)
       + YOYO_LEVELS[L - 1].shuttlesPerLevel * YOYO_LEVELS[L - 1].shuttleTime
       + RECOVERY_TIME * 100

LevelEnd(L) == LevelStart(L) + YOYO_LEVELS[L].shuttlesPerLevel * YOYO_LEVELS[L].shuttleTime

TotalDuration == LevelEnd(NumLevels) + RECOVERY_TIME * 100

(* The instants of level L at which the schedule changes. *)
Boundaries(L) ==
  { LevelStart(L) + s * YOYO_LEVELS[L].shuttleTime : s \in 0..YOYO_LEVELS[L].shuttlesPerLevel }
  \cup { LevelEnd(L) + 10, LevelEnd(L) + RECOVERY_TIME * 100 }

Around(bs) == { b + d : b \in bs, d \in (0 - MaxOffset)..MaxOffset }

SampleTimes ==
  Around(UNION { Boundaries(L) : L \in 1..NumLevels })
  \cup { 0 - 1000, 0 - 1, 1440, 6000, 7000 }
  \cup { 1000 * k : k \in 0..MaxTens }

SampleDurations ==
  Around(UNION { Boundaries(L) : L \in 1..MaxCueLevel })
  \cup { 0 - 100, 0, 3000, 12000, 360000 }
  \cup { TotalDuration, TotalDuration + 1, 100000 }

(* The pairs m1 <= m2 of sampled values of maxDuration. *)
DurationPairs == { p \in SampleDurations \X SampleDurations : p[1] <= p[2] }

(* The full schedule, as the conductor precomputes it: getAudioCues(). *)
AllCues == getAudioCues(Pos(FromInt(3600)))

RankOf == [c \in SampleTimes |-> Cardinality({ d \in SampleTimes : d < c }) + 1]

(* The sampled literals in ascending order. *)
SampleSeq == [k \in 1..Cardinality(SampleTimes) |-> CHOOSE c \in SampleTimes : RankOf[c] = k]

ShuttleArgs ==
  [k \in 1..(NumLevels * 9) |-> << "shuttle", ((k - 1) \div 9) + 1, (k - 1) % 9 >>]

(* Where an elapsed time comes from: a literal, the time of a cue of the   *)
(* full schedule, or getShuttleTime(level, shuttle).                       *)
Sources ==
  [k \in 1..Len(SampleSeq) |-> << "literal", SampleSeq[k] >>]
  \o [i \in 1..Len(AllCues) |-> << "cue", i >>]
  \o ShuttleArgs

SourceIds == 1..Len(Sources)

ElapsedOf(src) ==
  IF src[1] = "literal" THEN Number(src[2])
  ELSE IF src[1] = "cue" THEN Pos(AllCues[src[2]].time)
  ELSE Pos(getShuttleTime(src[2], src[3]))

ElapsedAt == [k \in SourceIds |-> ElapsedOf(Sources[k])]

(* getTestStateAtTime at every sampled elapsed time. *)
StateAt == [k \in SourceIds |-> getTestStateAtTime(ElapsedAt[k])]

(* A time to the nearest hundredth. *)
NearestCentis(x) ==
  (IF x.neg THEN 0 - 1 ELSE 1)
  * (x.mag[NumLimbs] * 100 + (x.mag[FracLimbs] * 100 + LimbBase \div 2) \div LimbBase)

NearestAt == [k \in SourceIds |-> NearestCentis(ElapsedAt[k])]

(* The pairs t1 <= t2 of sampled times at most MaxPairGap apart.  Every    *)
(* two neighbours of the sampled times are such a pair, so the order of    *)
(* two results over these pairs is their order over all pairs.             *)
SamplePairs ==
  { p \in SourceIds \X SourceIds :
      /\ NearestAt[p[2]] - NearestAt[p[1]] \in (0 - 1)..MaxPairGap
      /\ NumLe(ElapsedAt[p[1]], ElapsedAt[p[2]]) }

CallOf(k) == [id |-> k, source |-> Sources[k]]

OpOf(k) ==
  IF Sources[k][1] = "literal" THEN "getTestStateAtTime(literal)"
  ELSE IF Sources[k][1] = "cue" THEN "getTestStateAtTime(cue.time)"
  ELSE "getTestStateAtTime(getShuttleTime(level, shuttle))"

(* pc, op, arg, result: a call of a function of lib/yoyo-test.ts and what  *)
(* it returns.  levels: the array YOYO_LEVELS as the running program holds *)
(* it.  The other variables are the ConductorPage component: its clock     *)
(* (now, in seconds), its React state (session.status, startTime,          *)
(* elapsedTime, isRunning, audioCues by its length, nextCueIndex), its     *)
(* interval timer and the startTime its callback closes over, the state of *)
(* the audio context, the checkAudioCues calls that wait in                *)
(* "await audioManager.playSound" (each by the nextCueIndex it closed      *)
(* over), whether the cue effect has to run, per cue index, how often      *)
(* checkAudioCues has passed the cue to playSound in this session, and the *)
(* timeout of the start beep of the last start.  The last five are the     *)
(* AudioManager: what fetch does for the file of each cue type, the map    *)
(* audioFiles, isInitialized, the initializeAudio calls that are loading   *)
(* files, and what the last playSound call did.                            *)
VARIABLES pc, op, arg, result, levels,
          now, sessionStatus, startTime, elapsedTime, isRunning, audioCues,
          nextCueIndex, timerActive, timerStartTime, audioSuspended, pending,
          effectDue, played, startBeep,
          fetchOutcome, audioFiles, isInitialized, loaders, sound

coreVars == << pc, op, arg, result >>

conductorVars ==
  << now, sessionStatus, startTime, elapsedTime, isRunning, audioCues, nextCueIndex,
     timerActive, timerStartTime, audioSuspended, pending, effectDue, played,
     startBeep >>

audioVars == << fetchOutcome, audioFiles, isInitialized, loaders, sound >>

vars == << coreVars, levels, conductorVars, audioVars >>

(* null, for a time *)
NoTime == 0 - 1

(* AudioCueType, in the order of the entries of audioFiles in              *)
(* loadAudioFiles.                                                         *)
AudioFileTypes ==
  << "start", "turn", "level_complete", "recovery_start", "recovery_end" >>

CueTypes == { AudioFileTypes[k] : k \in 1..Len(AudioFileTypes) }

(* What fetch(url) and the decoding do for the file of a cue type: the     *)
(* file is there and decodes, the response is not OK (404), fetch throws,  *)
(* or decodeAudioData throws.                                              *)
FetchOutcomes == { "ok", "notOk", "throws", "undecodable" }

(* No playSound call yet. *)
NoSound == << >>

(* The audio manager after all five files were loaded from their URLs. *)
AudioLoaded ==
  /\ fetchOutcome = [type \in CueTypes |-> "ok"]
  /\ audioFiles = [type \in CueTypes |-> "file"]
  /\ isInitialized = TRUE
  /\ loaders = << >>
  /\ sound = NoSound

MaxNow == 9
MaxPending == 2
MaxPlays == 2

(* cues.filter(cue => cue.time <= elapsed).length *)
PassedCues ==
  [elapsed \in 0..MaxNow |->
     Cardinality({ i \in 1..Len(AllCues) : BLe(AllCues[i].time, FromInt(elapsed)) })]

(* The cue indices that an elapsed time up to MaxNow can make due. *)
PlayedIndices == 0..(PassedCues[MaxNow] - 1)

(* elapsedTime >= audioCues[index].time *)
CueIsDue == [index \in PlayedIndices |-> [elapsed \in 0..MaxNow |->
               BLe(AllCues[index + 1].time, FromInt(elapsed))]]

(* The component before loadInitialData has run. *)
Mounted ==
  /\ now \in 1..MaxNow
  /\ sessionStatus = "loading"
  /\ startTime = NoTime
  /\ elapsedTime = 0
  /\ isRunning = FALSE
  /\ audioCues = 0
  /\ nextCueIndex = 0
  /\ timerActive = FALSE
  /\ timerStartTime = NoTime
  /\ audioSuspended \in BOOLEAN
  /\ pending = << >>
  /\ effectDue = FALSE
  /\ played = [i \in PlayedIndices |-> 0]
  /\ startBeep = "none"

Init ==
  /\ pc = "call"
  /\ result = << >>
  /\ levels = YOYO_LEVELS
  /\ now = 1 /\ audioSuspended = TRUE
  /\ Mounted
  /\ AudioLoaded
  /\ \/ \E k \in SourceIds : op = OpOf(k) /\ arg = CallOf(k)
     \/ \E p \in SamplePairs :
          op = "getTestStateAtTime twice" /\ arg = << CallOf(p[1]), CallOf(p[2]) >>
     \/ \E c \in SampleDurations : op = "getAudioCues" /\ arg = c
     \/ \E p \in DurationPairs : op = "getAudioCues twice" /\ arg = p
     \/ \E L \in 1..(NumLevels + MaxLevelOver) :
          \E s \in 0..(YOYO_LEVELS[1].shuttlesPerLevel + MaxShuttleOver) :
            op = "getShuttleTime" /\ arg = << L, s >>
     \/ \E d \in 0..MaxDistance : op = "calculateVO2Max" /\ arg = d
     \/ \E n \in 1..MaxParticipants : \E rows \in [1..n -> ParticipantKinds] :
          /\ op = "finalizeParticipants"
          /\ arg = [k \in 1..n |->
                      [player_id |-> k, status |-> rows[k].status,
                       elimination_distance |-> rows[k].elimination_distance]]

(* getTestStateAtTime(elapsedSeconds) for an elapsed time written as a literal *)
ResolveLiteral ==
  /\ pc = "call" /\ op = "getTestStateAtTime(literal)"
  /\ result' = StateAt[arg.id]
  /\ pc' = "return"
  /\ UNCHANGED << op, arg, levels, conductorVars, audioVars >>

(* getTestStateAtTime(cue.time) for a cue of the full schedule *)
ResolveAtCue ==
  /\ pc = "call" /\ op = "getTestStateAtTime(cue.time)"
  /\ result' = StateAt[arg.id]
  /\ pc' = "return"
  /\ UNCHANGED << op, arg, levels, conductorVars, audioVars >>

(* getTestStateAtTime(getShuttleTime(level, shuttle)) *)
ResolveAtShuttleTime ==
  /\ pc = "call" /\ op = "getTestStateAtTime(getShuttleTime(level, shuttle))"
  /\ result' = StateAt[arg.id]
  /\ pc' = "return"
  /\ UNCHANGED << op, arg, levels, conductorVars, audioVars >>

(* getTestStateAtTime at an earlier and at a later time *)
ResolveTwice ==
  /\ pc = "call" /\ op = "getTestStateAtTime twice"
  /\ result' = << StateAt[arg[1].id], StateAt[arg[2].id] >>
  /\ pc' = "return"
  /\ UNCHANGED << op, arg, levels, conductorVars, audioVars >>

(* getAudioCues(maxDuration) that also drops the last entry of the table. *)
Cues_droppingLevel ==
  /\ pc = "call" /\ op = "getAudioCues"
  /\ result' = getAudioCues(Number(arg))
  /\ pc' = "return"
  /\ levels' = SubSeq(levels, 1, Len(levels) - 1)
  /\ UNCHANGED << op, arg, conductorVars, audioVars >>

(* getAudioCues(maxDuration) *)
Cues ==
  /\ pc = "call" /\ op = "getAudioCues"
  /\ result' = getAudioCues(Number(arg))
  /\ pc' = "return"
  /\ UNCHANGED << op, arg, levels, conductorVars, audioVars >>

(* getAudioCues at a smaller and at a larger maxDuration *)
CuesTwice ==
  /\ pc = "call" /\ op = "getAudioCues twice"
  /\ result' = << getAudioCues(Number(arg[1])), getAudioCues(Number(arg[2])) >>
  /\ pc' = "return"
  /\ UNCHANGED << op, arg, levels, conductorVars, audioVars >>

(* getShuttleTime(level, shuttle) *)
ShuttleTime ==
  /\ pc = "call" /\ op = "getShuttleTime"
  /\ result' = Pos(getShuttleTime(arg[1], arg[2]))
  /\ pc' = "return"
  /\ UNCHANGED << op, arg, levels, conductorVars, audioVars >>

(* calculateVO2Max(distanceMeters) *)
CalculateVO2Max ==
  /\ pc = "call" /\ op = "calculateVO2Max"
  /\ result' = Pos(calculateVO2Max(arg))
  /\ pc' = "return"
  /\ UNCHANGED << op, arg, levels, conductorVars, audioVars >>

(* finalizeParticipants(sessionId) for the participants of the session *)
FinalizeParticipants ==
  /\ pc = "call" /\ op = "finalizeParticipants"
  /\ \E failAt \in 0..(Len(arg) + 1) :
       /\ failAt <= Len(SelectSeq(arg, IsFinalized)) + 1
       /\ result' = finalizeParticipants(arg, failAt)
  /\ pc' = "return"
  /\ UNCHANGED << op, arg, levels, conductorVars, audioVars >>

Next ==
  \/ ResolveLiteral
  \/ ResolveAtCue
  \/ ResolveAtShuttleTime
  \/ ResolveTwice
  \/ Cues
  \/ CuesTwice
  \/ ShuttleTime
  \/ CalculateVO2Max
  \/ FinalizeParticipants

Spec == Init /\ [][Next]_vars

----------------------------------------------------------------------------
(* pages/ConductorPage.tsx.  A step is a task of the event loop: an event  *)
(* handler, a timer callback, a render with its effect, or the             *)
(* continuation of an await.  The state updates of one task are one        *)
(* render.  A checkAudioCues call whose playSound did not wait for the     *)
(* audio context continues in the microtask of the same task; one whose    *)
(* playSound waits for audioContext.resume() continues in a later task,    *)
(* and the waiting calls continue in any order.                            *)

ConductorInit ==
  /\ pc = "idle" /\ op = "" /\ arg = << >> /\ result = << >>
  /\ levels = YOYO_LEVELS
  /\ Mounted
  /\ AudioLoaded

(* LoadInitialData that resumes an active session with the cursor at the   *)
(* first cue.                                                              *)
LoadInitialData_fromFirstCue ==
  /\ sessionStatus = "loading"
  /\ \/ /\ sessionStatus' \in { "none", "idle" }
        /\ UNCHANGED << startTime, elapsedTime, isRunning, audioCues, nextCueIndex,
                        timerActive, timerStartTime, effectDue >>
     \/ /\ sessionStatus' = "active"
        /\ elapsedTime' = now - 1
        /\ startTime' = 1
        /\ isRunning' = TRUE
        /\ timerActive' = TRUE
        /\ timerStartTime' = startTime
        /\ audioCues' = Len(AllCues)
        /\ nextCueIndex' = 0
        /\ effectDue' = TRUE
  /\ UNCHANGED << now, audioSuspended, pending, played, startBeep, coreVars, levels,
                  audioVars >>

(* loadInitialData: no session, an idle session, or an active session      *)
(* started at time 1 whose test is resumed.  setupTimer runs in the first   *)
(* render, where startTime is null.                                        *)
LoadInitialData ==
  /\ sessionStatus = "loading"
  /\ \/ /\ sessionStatus' \in { "none", "idle" }
        /\ UNCHANGED << startTime, elapsedTime, isRunning, audioCues, nextCueIndex,
                        timerActive, timerStartTime, effectDue >>
     \/ /\ sessionStatus' = "active"
        /\ elapsedTime' = now - 1
        /\ startTime' = 1
        /\ isRunning' = TRUE
        /\ timerActive' = TRUE
        /\ timerStartTime' = startTime
        /\ audioCues' = Len(AllCues)
        /\ nextCueIndex' = PassedCues[now - 1]
        /\ effectDue' = TRUE
  /\ UNCHANGED << now, audioSuspended, pending, played, startBeep, coreVars, levels,
                  audioVars >>

(* handleCreateSession *)
HandleCreateSession ==
  /\ sessionStatus = "none"
  /\ sessionStatus' = "idle"
  /\ UNCHANGED << now, startTime, elapsedTime, isRunning, audioCues, nextCueIndex,
                  timerActive, timerStartTime, audioSuspended, pending, effectDue, played,
                  startBeep, coreVars, levels, audioVars >>

(* loadSession, called for a change of live_sessions: the current session  *)
(* is now another, idle one.                                               *)
LoadSession ==
  /\ sessionStatus = "active"
  /\ sessionStatus' = "idle"
  /\ UNCHANGED << now, startTime, elapsedTime, isRunning, audioCues, nextCueIndex,
                  timerActive, timerStartTime, audioSuspended, pending, effectDue, played,
                  startBeep, coreVars, levels, audioVars >>

(* handleStartSession after its awaits: ensureAudioReady has resumed the   *)
(* audio context; setupTimer closes over the startTime of the render the   *)
(* handler belongs to, not over the one set here.                          *)
HandleStartSession ==
  /\ sessionStatus = "idle"
  /\ sessionStatus' = "active"
  /\ audioSuspended' = FALSE
  /\ startTime' = now
  /\ elapsedTime' = 0
  /\ isRunning' = TRUE
  /\ audioCues' = Len(AllCues)
  /\ nextCueIndex' = 0
  /\ timerActive' = TRUE
  /\ timerStartTime' = startTime
  /\ effectDue' = TRUE
  /\ played' = [i \in PlayedIndices |-> 0]
  /\ startBeep' = "scheduled"
  /\ UNCHANGED << now, pending, coreVars, levels, audioVars >>

(* handleFinishSession: the page is left when finishing the session        *)
(* succeeds, and stays when it throws.                                     *)
HandleFinishSession ==
  /\ sessionStatus = "active"
  /\ isRunning' = FALSE
  /\ timerActive' = FALSE
  /\ effectDue' = (effectDue \/ isRunning)
  /\ sessionStatus' \in { "finished", "active" }
  /\ UNCHANGED << now, startTime, elapsedTime, audioCues, nextCueIndex, timerStartTime,
                  audioSuspended, pending, played,
                  startBeep, coreVars, levels, audioVars >>

(* A second passes. *)
ClockAdvance ==
  /\ now < MaxNow
  /\ now' = now + 1
  /\ UNCHANGED << sessionStatus, startTime, elapsedTime, isRunning, audioCues,
                  nextCueIndex, timerActive, timerStartTime, audioSuspended, pending,
                  effectDue, played,
                  startBeep, coreVars, levels, audioVars >>

(* The callback of setInterval in setupTimer. *)
Tick ==
  /\ sessionStatus # "finished"
  /\ timerActive
  /\ timerStartTime # NoTime /\ timerStartTime # 0
  /\ elapsedTime' = now - timerStartTime
  /\ effectDue' = (effectDue \/ elapsedTime' # elapsedTime)
  /\ UNCHANGED << now, sessionStatus, startTime, isRunning, audioCues, nextCueIndex,
                  timerActive, timerStartTime, audioSuspended, pending, played,
                  startBeep, coreVars, levels, audioVars >>

(* The browser suspends the audio context. *)
AudioContextSuspends ==
  /\ sessionStatus # "finished"
  /\ ~ audioSuspended
  /\ audioSuspended' = TRUE
  /\ UNCHANGED << now, sessionStatus, startTime, elapsedTime, isRunning, audioCues,
                  nextCueIndex, timerActive, timerStartTime, pending, effectDue, played,
                  startBeep, coreVars, levels, audioVars >>

(* The effect on [elapsedTime, audioCues, nextCueIndex, isRunning] and the  *)
(* checkAudioCues call it makes, up to the await and, when playSound does  *)
(* not wait, beyond it.                                                    *)
CheckAudioCues ==
  /\ sessionStatus # "finished"
  /\ effectDue
  /\ IF /\ isRunning /\ audioCues > 0
        /\ nextCueIndex < audioCues
        /\ nextCueIndex \in PlayedIndices
        /\ CueIsDue[nextCueIndex][elapsedTime]
     THEN /\ played' = [played EXCEPT ![nextCueIndex] = IF @ < MaxPlays THEN @ + 1 ELSE @]
          /\ IF audioSuspended
             THEN /\ Len(pending) < MaxPending
                  /\ pending' = Append(pending, nextCueIndex)
                  /\ effectDue' = FALSE
                  /\ UNCHANGED nextCueIndex
             ELSE /\ nextCueIndex' = nextCueIndex + 1
                  /\ effectDue' = TRUE
                  /\ UNCHANGED pending
     ELSE /\ effectDue' = FALSE
          /\ UNCHANGED << played, pending, nextCueIndex >>
  /\ UNCHANGED << now, sessionStatus, startTime, elapsedTime, isRunning, audioCues,
                  timerActive, timerStartTime, audioSuspended,
                  startBeep, coreVars, levels, audioVars >>

(* audioContext.resume() resolves for the k-th waiting call: playSound     *)
(* starts the sound and checkAudioCues continues with                      *)
(* setNextCueIndex(nextCueIndex + 1), for the nextCueIndex it closed over. *)
PlaySoundResolves ==
  /\ sessionStatus # "finished"
  /\ \E k \in 1..Len(pending) :
       /\ pending' = SubSeq(pending, 1, k - 1) \o SubSeq(pending, k + 1, Len(pending))
       /\ nextCueIndex' = pending[k] + 1
       /\ effectDue' = (effectDue \/ nextCueIndex # pending[k] + 1)
  /\ audioSuspended' = FALSE
  /\ UNCHANGED << now, sessionStatus, startTime, elapsedTime, isRunning, audioCues,
                  timerActive, timerStartTime, played,
                  startBeep, coreVars, levels, audioVars >>

(* The callback of the setTimeout of handleStartSession, a second after    *)
(* the start: audioManager.playSound('start').                             *)
DelayedStartBeep ==
  /\ startBeep = "scheduled"
  /\ now > startTime
  /\ startBeep' = "requested"
  /\ UNCHANGED << now, sessionStatus, startTime, elapsedTime, isRunning, audioCues,
                  nextCueIndex, timerActive, timerStartTime, audioSuspended, pending,
                  effectDue, played, coreVars, levels, audioVars >>

ConductorNext ==
  \/ LoadInitialData
  \/ HandleCreateSession
  \/ LoadSession
  \/ HandleStartSession
  \/ HandleFinishSession
  \/ ClockAdvance
  \/ Tick
  \/ AudioContextSuspends
  \/ CheckAudioCues
  \/ PlaySoundResolves
  \/ DelayedStartBeep

ConductorSpec == ConductorInit /\ [][ConductorNext]_vars

----------------------------------------------------------------------------
(* lib/audio.ts: the AudioManager.  A step is the part of an async method  *)
(* between two awaits that the event loop can separate: one iteration of   *)
(* the loop of loadAudioFiles, or a whole playSound or ensureAudioReady    *)
(* call.                                                                   *)

MaxLoaders == 2

(* The state after "new AudioManager()": the audio context exists and      *)
(* initializeAudio waits for the first fetch.                              *)
AudioInit ==
  /\ pc = "idle" /\ op = "" /\ arg = << >> /\ result = << >>
  /\ levels = YOYO_LEVELS
  /\ now = 1
  /\ Mounted
  /\ fetchOutcome \in [CueTypes -> FetchOutcomes]
  /\ audioFiles = [type \in CueTypes |-> "none"]
  /\ isInitialized = FALSE
  /\ loaders = << [index |-> 1, ensure |-> FALSE] >>
  /\ sound = NoSound

(* audioFiles after the iteration of loadAudioFiles for the type: the      *)
(* decoded file for an OK response, the beep of createBeep when fetch or   *)
(* decodeAudioData throws, and no entry when the response is not OK.       *)
Registered(files, type) ==
  IF fetchOutcome[type] = "ok" THEN [files EXCEPT ![type] = "file"]
  ELSE IF fetchOutcome[type] = "notOk" THEN files
  ELSE [files EXCEPT ![type] = "beep"]

(* One iteration of the loop of loadAudioFiles in the k-th running         *)
(* initializeAudio; after the last one initializeAudio sets isInitialized, *)
(* and ensureAudioReady, when it made the call, resumes the audio context. *)
LoadAudioFile ==
  /\ \E k \in 1..Len(loaders) :
       /\ audioFiles' = Registered(audioFiles, AudioFileTypes[loaders[k].index])
       /\ IF loaders[k].index < Len(AudioFileTypes)
          THEN /\ loaders' = [loaders EXCEPT ![k].index = @ + 1]
               /\ UNCHANGED << isInitialized, audioSuspended >>
          ELSE /\ loaders' = SubSeq(loaders, 1, k - 1) \o SubSeq(loaders, k + 1, Len(loaders))
               /\ isInitialized' = TRUE
               /\ audioSuspended' = (audioSuspended /\ ~ loaders[k].ensure)
  /\ UNCHANGED << fetchOutcome, sound, now, sessionStatus, startTime, elapsedTime, isRunning,
                  audioCues, nextCueIndex, timerActive, timerStartTime, pending, effectDue,
                  played, startBeep, coreVars, levels >>

(* playSound(type): nothing when the manager is not initialized; else the  *)
(* audio context is resumed and the buffer of the type, when there is one, *)
(* is started.                                                             *)
PlaySound ==
  /\ \E type \in CueTypes :
       sound' = [type |-> type, initialized |-> isInitialized,
                 played |-> isInitialized /\ audioFiles[type] # "none"]
  /\ audioSuspended' = (audioSuspended /\ ~ isInitialized)
  /\ UNCHANGED << fetchOutcome, audioFiles, isInitialized, loaders, now, sessionStatus,
                  startTime, elapsedTime, isRunning, audioCues, nextCueIndex, timerActive,
                  timerStartTime, pending, effectDue, played, startBeep, coreVars, levels >>

(* ensureAudioReady: a manager that is not initialized calls               *)
(* initializeAudio again, which makes a new audio context and loads the    *)
(* files; an initialized one resumes the audio context.                    *)
EnsureAudioReady ==
  /\ IF isInitialized
     THEN /\ audioSuspended' = FALSE
          /\ UNCHANGED loaders
     ELSE /\ Len(loaders) < MaxLoaders
          /\ loaders' = Append(loaders, [index |-> 1, ensure |-> TRUE])
          /\ audioSuspended' \in BOOLEAN
  /\ UNCHANGED << fetchOutcome, audioFiles, isInitialized, sound, now, sessionStatus,
                  startTime, elapsedTime, isRunning, audioCues, nextCueIndex, timerActive,
                  timerStartTime, pending, effectDue, played, startBeep, coreVars, levels >>

AudioNext ==
  \/ LoadAudioFile
  \/ PlaySound
  \/ EnsureAudioReady

AudioSpec == AudioInit /\ [][AudioNext]_vars

----------------------------------------------------------------------------
(* The claims. *)

Returned(o) == pc = "return" /\ op = o

Resolved ==
  /\ pc = "return"
  /\ op \in { "getTestStateAtTime(literal)", "getTestStateAtTime(cue.time)",
              "getTestStateAtTime(getShuttleTime(level, shuttle))" }

LevelStartAt == [L \in 1..NumLevels |-> LevelStart(L)]

LevelEndAt == [L \in 1..NumLevels |-> LevelEnd(L)]

(* Distance of all levels below L. *)
RECURSIVE DistanceBelow(_)
DistanceBelow(L) ==
  IF L = 1 THEN 0
  ELSE DistanceBelow(L - 1) + YOYO_LEVELS[L - 1].shuttlesPerLevel * SHUTTLE_DISTANCE

(* The elapsed time of a returned getTestStateAtTime(literal), in hundredths. *)
Literal == arg.source[2]

(* C1: for an elapsed time t with S_L < t <= E_L the state is level L,     *)
(* shuttle floor((t - S_L) / shuttleTime_L), distance of the lower levels  *)
(* plus 20 per shuttle, not in recovery; at t = E_L the shuttle is         *)
(* shuttlesPerLevel.                                                       *)
C1_InsideLevel ==
  Returned("getTestStateAtTime(literal)") =>
    \A L \in 1..NumLevels :
      (LevelStartAt[L] < Literal /\ Literal <= LevelEndAt[L]) =>
        LET shuttle == (Literal - LevelStartAt[L]) \div YOYO_LEVELS[L].shuttleTime
        IN  /\ result.level = L
            /\ result.shuttle = shuttle
            /\ result.distance = DistanceBelow(L) + SHUTTLE_DISTANCE * shuttle
            /\ result.isRecoveryPhase = FALSE

(* C2: for an elapsed time t with E_L < t <= E_L + 10 the state is level   *)
(* L, shuttle shuttlesPerLevel, the distance including level L, in         *)
(* recovery.                                                               *)
C2_RecoveryWindow ==
  Returned("getTestStateAtTime(literal)") =>
    \A L \in 1..NumLevels :
      (LevelEndAt[L] < Literal /\ Literal <= LevelEndAt[L] + RECOVERY_TIME * 100) =>
        /\ result.level = L
        /\ result.shuttle = YOYO_LEVELS[L].shuttlesPerLevel
        /\ result.distance = DistanceBelow(L) + YOYO_LEVELS[L].shuttlesPerLevel * SHUTTLE_DISTANCE
        /\ result.isRecoveryPhase = TRUE

(* C3: for an elapsed time t <= 0 the state is level 1, shuttle 0,         *)
(* distance 0, not in recovery.                                            *)
C3_StartState ==
  (Returned("getTestStateAtTime(literal)") /\ Literal <= 0) =>
    /\ result.level = 1
    /\ result.shuttle = 0
    /\ result.distance = 0
    /\ result.isRecoveryPhase = FALSE

C3_Witness == Returned("getTestStateAtTime(literal)") /\ Literal < 0 - 100

(* C4: for two elapsed times t1 <= t2 the distance at t1 is at most the    *)
(* distance at t2.                                                         *)
C4_DistanceMonotone ==
  (Returned("getTestStateAtTime twice")
     /\ NumLe(ElapsedAt[arg[1].id], ElapsedAt[arg[2].id])) =>
    result[1].distance <= result[2].distance

C4_Witness ==
  /\ Returned("getTestStateAtTime twice")
  /\ arg[1].source[1] = "cue" /\ arg[2].source[1] = "literal"
  /\ NumLe(ElapsedAt[arg[1].id], ElapsedAt[arg[2].id])
  /\ result[1].isRecoveryPhase /\ ~ result[2].isRecoveryPhase
  /\ result[1].distance < result[2].distance

(* C5: no cue returned by getAudioCues(maxDuration) has a time greater     *)
(* than maxDuration.                                                       *)
C5_NoCueAfterMaxDuration ==
  Returned("getAudioCues") =>
    \A i \in 1..Len(result) : NumLe(Pos(result[i].time), Number(arg))

(* C6: the cues returned by getAudioCues(maxDuration) are in ascending     *)
(* order of time.                                                          *)
C6_CuesAscending ==
  Returned("getAudioCues") =>
    \A i \in 1..(Len(result) - 1) : BLe(result[i].time, result[i + 1].time)

C6_Witness ==
  /\ Returned("getAudioCues")
  /\ \E i \in 1..(Len(result) - 1) :
       result[i].type = "recovery_end" /\ result[i + 1].type = "turn"

(* C7: at the time of every cue of the full schedule that carries a level, *)
(* the state has the cue's level; at a turn cue it has the cue's shuttle   *)
(* and is not in recovery.                                                 *)
C7_StateAgreesWithCue ==
  Returned("getTestStateAtTime(cue.time)") =>
    LET cue == AllCues[arg.source[2]]
    IN  /\ cue.type # "start" => result.level = cue.level
        /\ cue.type = "turn" =>
             result.shuttle = cue.shuttle /\ result.isRecoveryPhase = FALSE

(* C8: the state at getShuttleTime(L, s) has level L and shuttle s, for    *)
(* every level L and every s in 0..shuttlesPerLevel.                       *)
C8_ShuttleTimeInverse ==
  Returned("getTestStateAtTime(getShuttleTime(level, shuttle))") =>
    result.level = arg.source[2] /\ result.shuttle = arg.source[3]

(* The time of the cue of the given type of level L in the full schedule. *)
CueTimeOf(type, L) ==
  AllCues[CHOOSE i \in 1..Len(AllCues) :
            AllCues[i].type = type /\ AllCues[i].level = L].time

LevelCompleteAt == [L \in 1..NumLevels |-> CueTimeOf("level_complete", L)]

RecoveryEndAt == [L \in 1..NumLevels |-> CueTimeOf("recovery_end", L)]

(* t is after the level_complete cue of level L and not after its          *)
(* recovery_end cue.                                                       *)
InRecoveryWindow(t, L) ==
  /\ ~ t.neg
  /\ BLt(LevelCompleteAt[L], t.mag)
  /\ BLe(t.mag, RecoveryEndAt[L])

C10_Plateau ==
  (Returned("getTestStateAtTime(literal)") /\ Literal > TotalDuration) =>
    /\ TotalDuration = 94640
    /\ result.level = 20
    /\ result.shuttle = 8
    /\ result.distance = 3200
    /\ result.isRecoveryPhase = FALSE

C10_Witness ==
  /\ Returned("getTestStateAtTime(literal)")
  /\ Literal = TotalDuration + 1
  /\ result.level = 20

(* C11 as stated: the totalTime of the state returned for an elapsed time, *)
(* positive, zero or negative, is that elapsed time.                       *)
C11_TotalTimeEchoed == Resolved => result.totalTime = ElapsedAt[arg.id]

(* C11, amended: the totalTime of the state returned for an elapsed time   *)
(* above 0 is that elapsed time, and for an elapsed time of 0 or below it  *)
(* is 0.                                                                   *)
C11_TotalTimeEchoedAboveZero ==
  Resolved =>
    result.totalTime =
      (IF NumLe(ElapsedAt[arg.id], Pos(BZero)) THEN Pos(BZero) ELSE ElapsedAt[arg.id])

C11_Witness ==
  /\ Returned("getTestStateAtTime(literal)")
  /\ Literal = 0 - 1
  /\ result.totalTime = Pos(BZero)

(* C12: in every returned state the level is in 1..20, the shuttle in      *)
(* 0..shuttlesPerLevel, the distance in 0..3200, and the distance is 20 m  *)
(* for every shuttle of the levels below the reported one and for every    *)
(* reported shuttle.                                                       *)
C12_DistanceCountsShuttles ==
  Resolved =>
    /\ result.level \in 1..20
    /\ result.shuttle \in 0..YOYO_LEVELS[result.level].shuttlesPerLevel
    /\ result.distance \in 0..3200
    /\ result.distance = DistanceBelow(result.level) + 20 * result.shuttle

C12_Witness ==
  /\ Resolved
  /\ result.level = 3 /\ result.shuttle = 8 /\ result.isRecoveryPhase
  /\ result.distance = 480

(* C13: for every maxDuration >= 0 the first cue of getAudioCues is the    *)
(* start cue at time 0, a record of a time and a type only, and no cue     *)
(* after it is a start cue.                                                *)
C13_StartCueFirst ==
  (Returned("getAudioCues") /\ arg >= 0) =>
    /\ Len(result) >= 1
    /\ result[1] = [time |-> BZero, type |-> "start"]
    /\ \A i \in 2..Len(result) : result[i].type # "start"

C13_Witness ==
  /\ Returned("getAudioCues") /\ arg = 0
  /\ result = << [time |-> BZero, type |-> "start"] >>

(* The indices of the cues of the given type and level in a cue list. *)
CuesOf(cues, type, L) ==
  { i \in 1..Len(cues) : cues[i].type = type /\ cues[i].level = L }

(* The indices of the turn cues of shuttle s of level L in a cue list. *)
TurnsOf(cues, L, s) == { i \in CuesOf(cues, "turn", L) : cues[i].shuttle = s }

(* C14: for every level L and shuttle s in 1..shuttlesPerLevel with        *)
(* S_L + s * shuttleTime_L <= maxDuration, getAudioCues(maxDuration) holds  *)
(* exactly one turn cue of level L and shuttle s, and its time is          *)
(* S_L + s * shuttleTime_L.                                                *)
C14_TurnCues ==
  Returned("getAudioCues") =>
    \A L \in 1..NumLevels : \A s \in 1..YOYO_LEVELS[L].shuttlesPerLevel :
      (LevelStartAt[L] + s * YOYO_LEVELS[L].shuttleTime <= arg) =>
        /\ Cardinality(TurnsOf(result, L, s)) = 1
        /\ \A i \in TurnsOf(result, L, s) :
             result[i].time = Dec(LevelStartAt[L] + s * YOYO_LEVELS[L].shuttleTime)

(* The cue of the given type of level L at c hundredths of a second: a    *)
(* time, a type and a level, and no shuttle.                               *)
LevelCue(type, L, c) == [time |-> Dec(c), type |-> type, level |-> L]

(* C15: for every level L with end time E_L the cues after the last turn   *)
(* cue of L are, in this order and each when its time is within            *)
(* maxDuration: level_complete at E_L, recovery_start at E_L + 0.1 and     *)
(* recovery_end at E_L + 10, each of level L and without a shuttle.        *)
C15_LevelEndCues ==
  Returned("getAudioCues") =>
    \A L \in 1..NumLevels :
      (LevelEndAt[L] <= arg) =>
        \E i \in TurnsOf(result, L, YOYO_LEVELS[L].shuttlesPerLevel) :
          /\ Len(result) > i
          /\ result[i + 1] = LevelCue("level_complete", L, LevelEndAt[L])
          /\ (LevelEndAt[L] + 10 <= arg) =>
               /\ Len(result) > i + 1
               /\ result[i + 2] = LevelCue("recovery_start", L, LevelEndAt[L] + 10)
          /\ (LevelEndAt[L] + 1000 <= arg) =>
               /\ Len(result) > i + 2
               /\ result[i + 3] = LevelCue("recovery_end", L, LevelEndAt[L] + 1000)

(* C16: getShuttleTime(L, s) is the sum of shuttlesPerLevel_k *            *)
(* shuttleTime_k + 10 over the levels k < L plus s * shuttleTime_L, for    *)
(* every level L and every s in 0..shuttlesPerLevel.                       *)
C16_ShuttleTimeSum ==
  (/\ Returned("getShuttleTime")
   /\ arg[1] <= NumLevels
   /\ arg[2] <= YOYO_LEVELS[arg[1]].shuttlesPerLevel) =>
    result = Number(LevelStartAt[arg[1]] + arg[2] * YOYO_LEVELS[arg[1]].shuttleTime)

(* C17: for every distance d in 0..MaxDistance, calculateVO2Max(d) is      *)
(* d * 0.0084 + 36.4 rounded to two decimals, a half going away from       *)
(* zero: 84 d + 364000 ten-thousandths make (84 d + 364050) \div 100       *)
(* hundredths; and calculateVO2Max is 36.4 at 0, 37.24 at 100, 37.43 at    *)
(* 123, 40.6 at 500 and 44.8 at 1000.                                      *)
C17_Vo2MaxRounded ==
  Returned("calculateVO2Max") =>
    /\ result = Number((84 * arg + 364000 + 50) \div 100)
    /\ arg = 0 => result = Number(3640)
    /\ arg = 100 => result = Number(3724)
    /\ arg = 123 => result = Number(3743)
    /\ arg = 500 => result = Number(4060)
    /\ arg = 1000 => result = Number(4480)

C17_Witness == Returned("calculateVO2Max") /\ arg = 123 /\ result = Number(3743)

(* C18: the table has 20 entries, entry i has level i and 8 shuttles, the  *)
(* speed does not fall and the shuttleTime does not rise from one entry to *)
(* the next, and the table is in every state, before and after every       *)
(* operation, the one it was at the start.                                 *)
C18_LevelTable ==
  /\ Len(levels) = 20
  /\ \A i \in 1..20 : levels[i].level = i /\ levels[i].shuttlesPerLevel = 8
  /\ \A i \in 1..19 :
       /\ levels[i].speed <= levels[i + 1].speed
       /\ levels[i].shuttleTime >= levels[i + 1].shuttleTime
  /\ levels = YOYO_LEVELS

C18_Witness ==
  /\ Returned("getAudioCues") /\ Len(result) > 1
  /\ Len(levels) = 20 /\ levels[20].shuttleTime = 343

(* C19: in every step of a running test other than its start,              *)
(* nextCueIndex stays or grows by exactly 1.                               *)
C19_CursorForward ==
  [][(isRunning /\ isRunning' /\ ~ HandleStartSession) =>
       nextCueIndex' \in { nextCueIndex, nextCueIndex + 1 }]_vars

(* C20: in one session checkAudioCues passes every cue index to playSound  *)
(* at most once.                                                           *)
C20_NoDoubleFire == \A i \in PlayedIndices : played[i] <= 1

(* C22: for every maxDuration of at least the total duration, 946.4 s,     *)
(* getAudioCues returns exactly 221 cues: the start cue and then, for the  *)
(* levels 1..20 in ascending order, 8 turn cues with the shuttles 1..8 in  *)
(* order, one level_complete, one recovery_start and one recovery_end cue  *)
(* of that level.                                                          *)
C22_FullSchedule ==
  (Returned("getAudioCues") /\ arg >= TotalDuration) =>
    /\ TotalDuration = 94640
    /\ Len(result) = 221
    /\ result[1].type = "start"
    /\ \A L \in 1..20 : \A k \in 1..11 :
         /\ result[1 + 11 * (L - 1) + k].level = L
         /\ result[1 + 11 * (L - 1) + k].type =
              (IF k <= 8 THEN "turn"
               ELSE IF k = 9 THEN "level_complete"
               ELSE IF k = 10 THEN "recovery_start"
               ELSE "recovery_end")
         /\ k <= 8 => result[1 + 11 * (L - 1) + k].shuttle = k

C22_Witness ==
  /\ Returned("getAudioCues") /\ arg = TotalDuration
  /\ Len(result) = 221
  /\ result[221].type = "recovery_end" /\ result[221].level = 20

(* C25: getShuttleTime returns a number for every level >= 1 and shuttle   *)
(* >= 0; for a level above 20 it is the sum of the 20 level durations with *)
(* their recoveries, 946.4 s, whatever the shuttle, and for a level of the *)
(* table and a shuttle above shuttlesPerLevel it is the start time of the  *)
(* level plus shuttle * shuttleTime.                                       *)
C25_ShuttleTimeOutOfRange ==
  Returned("getShuttleTime") =>
    /\ result.neg = FALSE
    /\ arg[1] > NumLevels => result = Number(94640)
    /\ (arg[1] <= NumLevels /\ arg[2] > YOYO_LEVELS[arg[1]].shuttlesPerLevel) =>
         result = Number(LevelStartAt[arg[1]] + arg[2] * YOYO_LEVELS[arg[1]].shuttleTime)

(* The fraction of a is exactly one half. *)
FractionIsHalf(a) ==
  a[FracLimbs] = LimbBase \div 2 /\ \A i \in 1..(FracLimbs - 1) : a[i] = 0

(* The integer nearest to a, a half going to the even neighbour. *)
RoundHalfEven(a) ==
  IF FractionIsHalf(a) THEN a[NumLimbs] + (a[NumLimbs] % 2) ELSE MathRound(a)

(* C27: for every distance d in 0..MaxDistance, 84 d + 364000 is not       *)
(* congruent to 50 modulo 100, the hundredfold of d * 0.0084 + 36.4 as the *)
(* code computes it is not at a half either, and rounding it half to even  *)
(* gives the calculateVO2Max(d) that Math.round gives.                     *)
C27_NeverHalfway ==
  Returned("calculateVO2Max") =>
    /\ (84 * arg + 364000) % 100 # 50
    /\ ~ FractionIsHalf(FMulInt(100, Vo2Max(arg)))
    /\ result = Pos(Dec(RoundHalfEven(FMulInt(100, Vo2Max(arg)))))

C27_Witness ==
  /\ Returned("calculateVO2Max") /\ arg = 3
  /\ (84 * arg + 364000) % 100 = 52
  /\ result = Number(3643)

(* C26: for two values m1 <= m2 of maxDuration, getAudioCues(m1) is a      *)
(* prefix of getAudioCues(m2), and it holds every cue of the full schedule *)
(* getAudioCues(3600) whose time is at most m1.                            *)
C26_TruncationCutsTail ==
  Returned("getAudioCues twice") =>
    /\ Len(result[1]) <= Len(result[2])
    /\ SubSeq(result[2], 1, Len(result[1])) = result[1]
    /\ \A i \in 1..Len(AllCues) :
         NumLe(Pos(AllCues[i].time), Number(arg[1])) =>
           \E j \in 1..Len(result[1]) : result[1][j] = AllCues[i]

C26_Witness ==
  /\ Returned("getAudioCues twice")
  /\ arg[1] = LevelEndAt[1] /\ arg[2] = LevelEndAt[2]
  /\ Len(result[1]) = 11 /\ Len(result[2]) = 22
  /\ result[1][11].type = "recovery_start"
  /\ result[2][11] = result[1][11]

(* The indices of the inserted test results of a player. *)
ResultsOf(inserted, player) ==
  { j \in 1..Len(inserted) : inserted[j].player_id = player }

(* C24: a finalizeParticipants that does not fail inserts, for every       *)
(* participant of the session that is eliminated with an elimination       *)
(* distance d >= 0 (0 included), exactly one test result, with             *)
(* distance_meters = d and vo2_max = calculateVO2Max(d), and inserts       *)
(* nothing for a participant that is not eliminated.                       *)
C24_FinalizeConverts ==
  (Returned("finalizeParticipants") /\ ~ result.thrown) =>
    \A k \in 1..Len(arg) :
      IF arg[k].status = "eliminated" /\ arg[k].elimination_distance >= 0
      THEN /\ Cardinality(ResultsOf(result.inserted, arg[k].player_id)) = 1
           /\ \A j \in ResultsOf(result.inserted, arg[k].player_id) :
                /\ result.inserted[j].distance_meters = arg[k].elimination_distance
                /\ result.inserted[j].vo2_max = calculateVO2Max(arg[k].elimination_distance)
      ELSE ResultsOf(result.inserted, arg[k].player_id) = { }

(* C21: once the audio manager is initialized, a cue type whose file was   *)
(* not provided (fetch threw, or the response was not OK) has the          *)
(* generated beep registered, and a playSound call of an initialized       *)
(* manager plays a sound, for each of the five cue types.                  *)
C21_BeepFallback ==
  /\ (isInitialized /\ loaders = << >>) =>
       \A type \in CueTypes :
         fetchOutcome[type] \in { "notOk", "throws" } => audioFiles[type] = "beep"
  /\ (sound # NoSound /\ sound.initialized) => sound.played

(* C23: while a test runs with its timer installed, the timer works with   *)
(* the start time recorded by the start or resume that installed it, and   *)
(* every tick sets elapsedTime to the whole seconds from that start time   *)
(* to now.                                                                 *)
C23_TimerDrivesElapsed ==
  /\ []((isRunning /\ timerActive) => timerStartTime = startTime)
  /\ [][Tick => elapsedTime' = now - startTime]_vars

(* The playSound('start') calls of the last start: those of the cue cursor *)
(* for the start cue, cue index 0, and the delayed beep.                   *)
StartSounds == played[0] + (IF startBeep = "requested" THEN 1 ELSE 0)

(* C28: after a start the 'start' sound is requested from playSound no     *)
(* more than once in all, by the cue cursor for the start cue or by the    *)
(* delayed beep; once the delayed beep was requested that is exactly once. *)
C28_StartSoundOnce == startBeep # "none" => StartSounds <= 1

(* The number of cues of the full schedule with a time of at most e        *)
(* seconds.                                                                *)
CuesUpTo ==
  [e \in 0..MaxNow |->
     Cardinality({ i \in 1..Len(AllCues) : NumLe(Pos(AllCues[i].time), Number(100 * e)) })]

C30_FailedFinishKeepsRunning ==
  [][(HandleFinishSession /\ sessionStatus' = "active") =>
       (isRunning' = isRunning /\ timerActive' = timerActive)]_vars

====
